---- MODULE Spec2Model ----
(***************************************************************************)
(* Connection cache of clickhousedb_fdw (src/src/clickhousedb_connection.c)*)
(*                                                                         *)
(* The state is the backend-local connection cache (ConnectionHash), the   *)
(* static flag xact_got_connection, the callbacks registered with the      *)
(* backend, the transport handles the drivers have opened, and the local   *)
(* transaction of the backend that calls into the cache.  One action per   *)
(* entry point: GetConnection, the invalidation callback, the transaction  *)
(* and the subtransaction callback.                                        *)
(***************************************************************************)
EXTENDS Integers, Sequences, FiniteSets, TLC

VARIABLES
    ConnectionHash,       \* [created, tab]: the HTAB; tab maps ConnCacheKey -> ConnCacheEntry
    xact_got_connection,  \* static bool
    callbacks,            \* callbacks registered with the backend, in order
    transport,            \* [live, next, misuse]: the drivers' open handles and their owners
    nestLevel,            \* nesting level of the backend's local transaction (0: none)
    xact_failed,          \* an ERROR was raised and the (sub)transaction awaits its abort
    stable,               \* per key: gate handed out since the last invalidation or boundary
    last                  \* the last call: operation, arguments, error, result, transport log

vars == <<ConnectionHash, xact_got_connection, callbacks, transport,
          nestLevel, xact_failed, stable, last>>

----------------------------------------------------------------------------
(* Bounds of the model *)

\* transport handles the drivers can hand out before every connect fails
MaxHandles == 3
\* deepest nesting of local (sub)transactions
MaxNest == 2

----------------------------------------------------------------------------
(* Values *)

NULL == 0
NoError == "ok"
FOREIGNSERVEROID == "FOREIGNSERVEROID"
USERMAPPINGOID == "USERMAPPINGOID"
CacheIds == {FOREIGNSERVEROID, USERMAPPINGOID}

\* user mappings (user->umid) known to the backend
Umids == {1, 2}
\* user->serverid of each user mapping
ServerOf(umid) == IF umid = 1 THEN 10 ELSE 20

\* ConnCacheKey: key.userid = user->umid, key.read = read
CacheKey(umid, read) == [userid |-> umid, read |-> read]
\* the (user mapping, read) pairs the backend's statements ask connections for
Requests == {<<1, TRUE>>, <<1, FALSE>>, <<2, FALSE>>}
Keys == {CacheKey(rq[1], rq[2]) : rq \in Requests}

\* GetSysCacheHashValue1: the syscache's hash of an object id.  A uint32 hash:
\* server 10 and user mapping 2 collide across the two caches.
GetSysCacheHashValue1(cacheid, oid) ==
    IF cacheid = FOREIGNSERVEROID
    THEN (IF oid = 10 THEN 5 ELSE 7)
    ELSE (IF oid = 1 THEN 6 ELSE 5)

\* hash values an invalidation message can carry (0: a cache reset)
HashValues == {0, 5, 6, 7}

\* the "driver" option after both option lists are read: the server of user
\* mapping 1 is set up for http, that of user mapping 2 for binary, and either
\* option can be altered to a value that names no driver
DriverOptions(umid) == {IF umid = 1 THEN "http" ELSE "binary", "bogus"}

\* A hash_search(HASH_ENTER) element is not zeroed: the fields of a new entry hold
\* whatever the memory held.
Uninitialized ==
    { [conn |-> IF b THEN 1 ELSE NULL, methods |-> "http",
       xact_depth |-> IF b THEN 1 ELSE 0, have_error |-> b,
       changing_xact_state |-> b, invalidated |-> b, read |-> b,
       server_hashvalue |-> IF b THEN 5 ELSE 0,
       mapping_hashvalue |-> IF b THEN 5 ELSE 0] : b \in BOOLEAN }

----------------------------------------------------------------------------
(* The world a call reads and writes, and what it leaves behind *)

World ==
    [created |-> ConnectionHash.created, tab |-> ConnectionHash.tab,
     got |-> xact_got_connection, cbs |-> callbacks, tr |-> transport,
     log |-> <<>>, err |-> NoError, ret |-> [conn |-> NULL, methods |-> "none"],
     found |-> FALSE,
     chk |-> [called |-> FALSE, conn |-> NULL, changing |-> FALSE, raised |-> FALSE]]

HasEntry(w, key) == key \in DOMAIN w.tab

----------------------------------------------------------------------------
(* Driver transport: entry->gate.methods->disconnect, http_connect, binary_connect *)

\* disconnect(conn): the handle is closed; closing a handle that is not open is a misuse
disconnect(w, h) ==
    [w EXCEPT !.tr.live = [x \in (DOMAIN @) \ {h} |-> @[x]],
              !.tr.misuse = @ \/ (h \notin DOMAIN w.tr.live),
              !.log = Append(@, <<"disconnect", h>>)]

\* http_connect / binary_connect: a fresh handle, or the driver raises an ERROR
driver_connect(w, key, kind, ok) ==
    IF ok /\ w.tr.next <= MaxHandles
    THEN [w EXCEPT !.tr.live = (w.tr.next :> key) @@ @,
                   !.tr.next = @ + 1,
                   !.log = Append(@, <<"connect", w.tr.next>>),
                   !.ret = [conn |-> w.tr.next, methods |-> kind]]
    ELSE [w EXCEPT !.err = "could not connect"]

----------------------------------------------------------------------------
(* clickhouse_connect *)

\* a variant that opens the transport before it looks at the driver name
clickhouse_connect_OpensFirst(w, key, driver, ok) ==
    LET w1 == driver_connect(w, key, "http", ok) IN
    IF driver = "http" \/ driver = "binary" THEN w1
    ELSE [w1 EXCEPT !.err = "invalid ClickHouse connection driver",
                    !.ret = [conn |-> NULL, methods |-> "none"]]

clickhouse_connect(w, key, driver, ok) ==
    IF driver = "http" THEN driver_connect(w, key, "http", ok)
    ELSE IF driver = "binary" THEN driver_connect(w, key, "binary", ok)
    ELSE [w EXCEPT !.err = "invalid ClickHouse connection driver"]

----------------------------------------------------------------------------
(* pgfdw_reject_incomplete_xact_state_change *)

\* a variant that looks at changing_xact_state only, not at entry->gate.conn
pgfdw_reject_IgnoresNullConn(w, key, tupValid) ==
    LET entry == w.tab[key]
        seen == [called |-> TRUE, conn |-> entry.conn,
                 changing |-> entry.changing_xact_state, raised |-> FALSE]
    IN
    IF ~entry.changing_xact_state
    THEN [w EXCEPT !.chk = seen]
    ELSE [w EXCEPT !.tr.live = [x \in (DOMAIN @) \ {entry.conn} |-> @[x]],
                   !.log = IF entry.conn # NULL
                           THEN Append(@, <<"disconnect", entry.conn>>) ELSE @,
                   !.tab[key].conn = NULL,
                   !.chk = [seen EXCEPT !.raised = TRUE],
                   !.err = IF tupValid THEN "connection to server was lost"
                           ELSE "cache lookup failed for user mapping"]

\* a variant that disconnects and raises but leaves entry->gate.conn set
pgfdw_reject_KeepsConn(w, key, tupValid) ==
    LET entry == w.tab[key]
        seen == [called |-> TRUE, conn |-> entry.conn,
                 changing |-> entry.changing_xact_state, raised |-> FALSE]
    IN
    IF entry.conn = NULL \/ ~entry.changing_xact_state
    THEN [w EXCEPT !.chk = seen]
    ELSE [disconnect(w, entry.conn) EXCEPT
             !.chk = [seen EXCEPT !.raised = TRUE],
             !.err = IF tupValid THEN "connection to server was lost"
                     ELSE "cache lookup failed for user mapping"]

pgfdw_reject_incomplete_xact_state_change(w, key, tupValid) ==
    LET entry == w.tab[key]
        \* what the call was given and whether it raised (kept for the record of the call)
        seen == [called |-> TRUE, conn |-> entry.conn,
                 changing |-> entry.changing_xact_state, raised |-> FALSE]
    IN
    IF entry.conn = NULL \/ ~entry.changing_xact_state
    THEN [w EXCEPT !.chk = seen]
    ELSE LET w1 == disconnect(w, entry.conn)
             w2 == [w1 EXCEPT !.tab[key].conn = NULL,
                              !.chk = [seen EXCEPT !.raised = TRUE]]
         IN  IF ~tupValid
             THEN [w2 EXCEPT !.err = "cache lookup failed for user mapping"]
             ELSE [w2 EXCEPT !.err = "connection to server was lost"]

----------------------------------------------------------------------------
(* GetConnection, block by block *)

\* a variant that registers the callbacks on every call, not only when it creates
\* the hash table
InitConnectionHash_RegistersEachCall(w) ==
    [w EXCEPT !.created = TRUE,
              !.cbs = @ \o <<"xact", "subxact", FOREIGNSERVEROID, USERMAPPINGOID>>]

\* lines 101-125: first time through, create the hash table and register the callbacks
InitConnectionHash(w) ==
    IF ~w.created
    THEN [w EXCEPT !.created = TRUE,
                   !.cbs = @ \o <<"xact", "subxact", FOREIGNSERVEROID, USERMAPPINGOID>>]
    ELSE w

\* lines 137-145: hash_search(HASH_ENTER); a new entry has only conn cleared
hash_search_enter(w, key, garbage) ==
    IF HasEntry(w, key)
    THEN [w EXCEPT !.found = TRUE]
    ELSE [w EXCEPT !.found = FALSE,
                   !.tab = (key :> [garbage EXCEPT !.conn = NULL]) @@ @]

\* a variant that closes the cached connection whether or not it is invalidated
CloseInvalidated_IgnoresFlag(w, key) ==
    LET entry == w.tab[key] IN
    IF entry.conn # NULL /\ entry.xact_depth = 0
    THEN [disconnect(w, entry.conn) EXCEPT !.tab[key].conn = NULL]
    ELSE w

\* a variant that forgets the connection without disconnecting it
CloseInvalidated_NoDisconnect(w, key) ==
    LET entry == w.tab[key] IN
    IF entry.conn # NULL /\ entry.invalidated /\ entry.xact_depth = 0
    THEN [w EXCEPT !.tab[key].conn = NULL]
    ELSE w

\* a variant that closes every invalidated connection of the cache, not only the
\* requested entry's
CloseInvalidated_AllEntries(w, key) ==
    LET stale == {k \in DOMAIN w.tab : /\ w.tab[k].conn # NULL
                                        /\ w.tab[k].invalidated
                                        /\ w.tab[k].xact_depth = 0}
        tr1 == [w.tr EXCEPT !.live = [x \in (DOMAIN @) \ {w.tab[k].conn : k \in stale}
                                        |-> @[x]]]
    IN  [w EXCEPT !.tr = tr1,
                  !.log = IF key \in stale
                          THEN Append(@, <<"disconnect", w.tab[key].conn>>) ELSE @,
                  !.tab = [k \in DOMAIN w.tab |->
                             IF k \in stale THEN [w.tab[k] EXCEPT !.conn = NULL]
                             ELSE w.tab[k]]]

\* a variant that disconnects but leaves entry->gate.conn set
CloseInvalidated_LeavesConn(w, key) ==
    LET entry == w.tab[key] IN
    IF entry.conn # NULL /\ entry.invalidated /\ entry.xact_depth = 0
    THEN disconnect(w, entry.conn)
    ELSE w

\* lines 154-159: remake an invalidated connection once out of all transactions
CloseInvalidated(w, key) ==
    LET entry == w.tab[key] IN
    IF entry.conn # NULL /\ entry.invalidated /\ entry.xact_depth = 0
    THEN [disconnect(w, entry.conn) EXCEPT !.tab[key].conn = NULL]
    ELSE w

\* a variant that does not clear changing_xact_state
ResetEntry_KeepsChanging(entry, umid, read) ==
    [entry EXCEPT !.xact_depth = 0,
                  !.have_error = FALSE,
                  !.invalidated = FALSE,
                  !.read = read,
                  !.server_hashvalue = GetSysCacheHashValue1(FOREIGNSERVEROID, ServerOf(umid)),
                  !.mapping_hashvalue = GetSysCacheHashValue1(USERMAPPINGOID, umid)]

\* a variant that does not clear the invalidated flag
ResetEntry_KeepsInvalidated(entry, umid, read) ==
    [entry EXCEPT !.xact_depth = 0,
                  !.have_error = FALSE,
                  !.changing_xact_state = FALSE,
                  !.read = read,
                  !.server_hashvalue = GetSysCacheHashValue1(FOREIGNSERVEROID, ServerOf(umid)),
                  !.mapping_hashvalue = GetSysCacheHashValue1(USERMAPPINGOID, umid)]

\* lines 176-187: reset all transient state fields and record the hash values
ResetEntry(entry, umid, read) ==
    [entry EXCEPT !.xact_depth = 0,
                  !.have_error = FALSE,
                  !.changing_xact_state = FALSE,
                  !.invalidated = FALSE,
                  !.read = read,
                  !.server_hashvalue = GetSysCacheHashValue1(FOREIGNSERVEROID, ServerOf(umid)),
                  !.mapping_hashvalue = GetSysCacheHashValue1(USERMAPPINGOID, umid)]

\* a variant that stores the handle it expects before the driver has answered
EstablishConnection_StoresEarly(w, key, umid, read, driver, ok) ==
    IF w.tab[key].conn = NULL
    THEN LET w1 == [w EXCEPT !.tab[key] = ResetEntry(@, umid, read),
                             !.tab[key].conn = w.tr.next]
             w2 == clickhouse_connect(w1, key, driver, ok)
         IN  IF w2.err # NoError
             THEN w2
             ELSE [w2 EXCEPT !.tab[key].conn = w2.ret.conn,
                             !.tab[key].methods = w2.ret.methods]
    ELSE w

\* lines 172-195: no connection in the entry, establish a new one
EstablishConnection(w, key, umid, read, driver, ok) ==
    IF w.tab[key].conn = NULL
    THEN LET w1 == [w EXCEPT !.tab[key] = ResetEntry(@, umid, read)]
             w2 == clickhouse_connect(w1, key, driver, ok)
         IN  IF w2.err # NoError
             THEN w2
             ELSE [w2 EXCEPT !.tab[key].conn = w2.ret.conn,
                             !.tab[key].methods = w2.ret.methods]
    ELSE w

\* line 197: return entry->gate
ReturnGate(w, key) ==
    [w EXCEPT !.ret = [conn |-> w.tab[key].conn, methods |-> w.tab[key].methods]]

\* a variant that remakes the connection first and runs the sanity check last
GetConnection_ChecksLast(w, umid, read, driver, ok, garbage, tupValid) ==
    LET key == CacheKey(umid, read)
        w1 == InitConnectionHash(w)
        w2 == [w1 EXCEPT !.got = TRUE]
        w3 == hash_search_enter(w2, key, garbage)
        w4 == CloseInvalidated(w3, key)
        w5 == EstablishConnection(w4, key, umid, read, driver, ok)
        w6 == IF w5.err # NoError THEN w5
              ELSE pgfdw_reject_incomplete_xact_state_change(w5, key, tupValid)
    IN  IF w6.err # NoError THEN w6 ELSE ReturnGate(w6, key)

GetConnection(w, umid, read, driver, ok, garbage, tupValid) ==
    LET key == CacheKey(umid, read)
        w1 == InitConnectionHash(w)
        w2 == [w1 EXCEPT !.got = TRUE]
        w3 == hash_search_enter(w2, key, garbage)
        w4 == pgfdw_reject_incomplete_xact_state_change(w3, key, tupValid)
        w5 == IF w4.err # NoError THEN w4 ELSE CloseInvalidated(w4, key)
        w6 == IF w5.err # NoError THEN w5
              ELSE EstablishConnection(w5, key, umid, read, driver, ok)
    IN  IF w6.err # NoError THEN w6 ELSE ReturnGate(w6, key)

----------------------------------------------------------------------------
(* pgfdw_xact_callback, pgfdw_subxact_callback: both bodies are empty *)

pgfdw_xact_callback(w, event) == w

pgfdw_subxact_callback(w, event) == w

----------------------------------------------------------------------------
(* pgfdw_inval_callback *)

\* a variant that compares the hash value with both stored hashes, whatever the cache
InvalMatches_AnyCache(entry, cacheid, hashvalue) ==
    \/ hashvalue = 0
    \/ entry.server_hashvalue = hashvalue
    \/ entry.mapping_hashvalue = hashvalue

InvalMatches(entry, cacheid, hashvalue) ==
    \/ hashvalue = 0
    \/ (cacheid = FOREIGNSERVEROID /\ entry.server_hashvalue = hashvalue)
    \/ (cacheid = USERMAPPINGOID /\ entry.mapping_hashvalue = hashvalue)

\* a variant that closes a matching connection at once when it is out of all
\* transactions, instead of marking it
pgfdw_inval_callback_ClosesNow(w, cacheid, hashvalue) ==
    LET hit == {k \in DOMAIN w.tab : /\ w.tab[k].conn # NULL
                                      /\ InvalMatches(w.tab[k], cacheid, hashvalue)}
        closed == {k \in hit : w.tab[k].xact_depth = 0}
    IN  [w EXCEPT !.tr.live = [x \in (DOMAIN @) \ {w.tab[k].conn : k \in closed}
                                 |-> @[x]],
                  !.tab = [k \in DOMAIN w.tab |->
                             IF k \in closed THEN [w.tab[k] EXCEPT !.conn = NULL]
                             ELSE IF k \in hit
                                  THEN [w.tab[k] EXCEPT !.invalidated = TRUE]
                                  ELSE w.tab[k]]]

pgfdw_inval_callback(w, cacheid, hashvalue) ==
    [w EXCEPT !.tab =
        [k \in DOMAIN w.tab |->
            IF w.tab[k].conn = NULL
            THEN w.tab[k]
            ELSE IF InvalMatches(w.tab[k], cacheid, hashvalue)
                 THEN [w.tab[k] EXCEPT !.invalidated = TRUE]
                 ELSE w.tab[k]]]

----------------------------------------------------------------------------
(* The state machine *)

NoKey == CacheKey(0, FALSE)
NoGate == [conn |-> NULL, methods |-> "none"]

\* the record of a call: its arguments, what it raised and returned, what it did on
\* the transport, and (for an invalidation) the entries it marked while their gate
\* was in use by the open transaction
Call(op, key, cacheid, hashvalue, w, hit) ==
    [op |-> op, key |-> key, cacheid |-> cacheid, hashvalue |-> hashvalue,
     err |-> w.err, ret |-> w.ret, log |-> w.log, found |-> w.found,
     chk |-> w.chk, hit |-> hit]

Store(w) ==
    /\ ConnectionHash' = [created |-> w.created, tab |-> w.tab]
    /\ xact_got_connection' = w.got
    /\ callbacks' = w.cbs
    /\ transport' = w.tr

Registered(name) == \E i \in DOMAIN callbacks : callbacks[i] = name

Init ==
    /\ ConnectionHash = [created |-> FALSE, tab |-> <<>>]
    /\ xact_got_connection = FALSE
    /\ callbacks = <<>>
    /\ transport = [live |-> <<>>, next |-> 1, misuse |-> FALSE]
    /\ nestLevel = 0
    /\ xact_failed = FALSE
    /\ stable = [k \in Keys |-> NULL]
    /\ last = Call("init", NoKey, "", 0, World, {})

\* GetConnection(user, will_prep_stmt, read), called by a statement of the open
\* local transaction; an ERROR leaves the (sub)transaction to be aborted
Acquire(umid, read, driver, ok, garbage, tupValid) ==
    /\ nestLevel >= 1
    /\ ~xact_failed
    /\ LET key == CacheKey(umid, read)
           w == GetConnection(World, umid, read, driver, ok, garbage, tupValid)
       IN  /\ Store(w)
           /\ xact_failed' = (w.err # NoError)
           /\ stable' = IF w.err = NoError /\ stable[key] = NULL
                        THEN [stable EXCEPT ![key] = w.ret.conn]
                        ELSE stable
           /\ last' = Call("acquire", key, "", 0, w, {})
    /\ UNCHANGED nestLevel

\* the backend delivers a syscache invalidation to the registered callback
Inval(cacheid, hashvalue) ==
    /\ Registered(cacheid)
    /\ LET w == pgfdw_inval_callback(World, cacheid, hashvalue)
       IN  /\ Store(w)
           /\ last' = Call("inval", NoKey, cacheid, hashvalue, w,
                           {k \in DOMAIN w.tab : /\ stable[k] # NULL
                                                  /\ w.tab[k].conn = stable[k]
                                                  /\ w.tab[k].invalidated})
    /\ stable' = [k \in Keys |-> NULL]
    /\ UNCHANGED <<nestLevel, xact_failed>>

\* the backend starts a top-level transaction (no callback is invoked for it)
StartTransaction ==
    /\ nestLevel = 0
    /\ nestLevel' = 1
    /\ stable' = [k \in Keys |-> NULL]
    /\ last' = Call("begin", NoKey, "", 0, World, {})
    /\ UNCHANGED <<ConnectionHash, xact_got_connection, callbacks, transport,
                   xact_failed>>

\* a subtransaction starts, commits or aborts: pgfdw_subxact_callback(event, ...)
SubXactEvent(event) ==
    /\ CASE event = "START_SUB" -> nestLevel >= 1 /\ nestLevel < MaxNest /\ ~xact_failed
         [] event = "COMMIT_SUB" -> nestLevel >= 2 /\ ~xact_failed
         [] event = "ABORT_SUB" -> nestLevel >= 2
    /\ LET w == IF Registered("subxact")
                THEN pgfdw_subxact_callback(World, event)
                ELSE World
       IN  /\ Store(w)
           /\ last' = Call(event, NoKey, "", 0, w, {})
    /\ nestLevel' = IF event = "START_SUB" THEN nestLevel + 1 ELSE nestLevel - 1
    /\ xact_failed' = IF event = "ABORT_SUB" THEN FALSE ELSE xact_failed
    /\ stable' = [k \in Keys |-> NULL]

\* the top-level transaction commits or aborts: pgfdw_xact_callback(event, ...)
XactEvent(event) ==
    /\ nestLevel = 1
    /\ event = "COMMIT" => ~xact_failed
    /\ LET w == IF Registered("xact")
                THEN pgfdw_xact_callback(World, event)
                ELSE World
       IN  /\ Store(w)
           /\ last' = Call(event, NoKey, "", 0, w, {})
    /\ nestLevel' = 0
    /\ xact_failed' = FALSE
    /\ stable' = [k \in Keys |-> NULL]

\* the inputs of a call that the call can read: the memory of an element only when
\* one is allocated, the user mapping's syscache entry only when it is looked up
GarbageRead(key) ==
    IF key \in DOMAIN ConnectionHash.tab THEN {CHOOSE g \in Uninitialized : ~g.have_error}
    ELSE Uninitialized

LookupRead(key) ==
    IF /\ key \in DOMAIN ConnectionHash.tab
       /\ ConnectionHash.tab[key].conn # NULL
       /\ ConnectionHash.tab[key].changing_xact_state
    THEN BOOLEAN
    ELSE {TRUE}

\* a statement asks for a connection: the request, the driver option in force, the
\* driver's answer, and what the call reads
GetConnectionCall ==
    \E rq \in Requests, ok \in BOOLEAN :
      \E driver \in DriverOptions(rq[1]),
         garbage \in GarbageRead(CacheKey(rq[1], rq[2])),
         tupValid \in LookupRead(CacheKey(rq[1], rq[2])) :
           Acquire(rq[1], rq[2], driver, ok, garbage, tupValid)

Next ==
    \/ GetConnectionCall
    \/ \E cacheid \in CacheIds, hashvalue \in HashValues : Inval(cacheid, hashvalue)
    \/ StartTransaction
    \/ \E event \in {"START_SUB", "COMMIT_SUB", "ABORT_SUB"} : SubXactEvent(event)
    \/ \E event \in {"COMMIT", "ABORT"} : XactEvent(event)

Spec == Init /\ [][Next]_vars

----------------------------------------------------------------------------
(* The cache started from a simulated entry.                                *)
(*                                                                          *)
(* No statement of the file sets changing_xact_state or raises xact_depth,  *)
(* so under Spec an entry with a connection always has xact_depth = 0 and   *)
(* changing_xact_state = FALSE.  SpecSim starts the same state machine from *)
(* a cache that holds one connected entry (SimKey) whose transaction fields  *)
(* take any value of their types: an interrupted state change left behind,  *)
(* an open remote transaction.                                              *)

SimKey == CacheKey(1, TRUE)

SimulatedEntry(key, depth, changing, invalidated) ==
    [ResetEntry(CHOOSE g \in Uninitialized : ~g.have_error, key.userid, key.read)
        EXCEPT !.conn = 1,
               !.methods = IF key.userid = 1 THEN "http" ELSE "binary",
               !.xact_depth = depth,
               !.changing_xact_state = changing,
               !.invalidated = invalidated]

InitSim ==
    \E key \in {SimKey}, depth \in {0, MaxNest}, changing \in BOOLEAN,
       invalidated \in BOOLEAN :
        /\ ConnectionHash =
              [created |-> TRUE,
               tab |-> (key :> SimulatedEntry(key, depth, changing, invalidated))]
        /\ xact_got_connection = TRUE
        /\ callbacks = <<"xact", "subxact", FOREIGNSERVEROID, USERMAPPINGOID>>
        /\ transport = [live |-> (1 :> key), next |-> 2, misuse |-> FALSE]
        /\ nestLevel = 0
        /\ xact_failed = FALSE
        /\ stable = [k \in Keys |-> NULL]
        /\ last = Call("init", NoKey, "", 0, World, {})

SpecSim == InitSim /\ [][Next]_vars

----------------------------------------------------------------------------
(* clickhouse_connect: the connection details and the http connection string *)
(*                                                                          *)
(* An option list is a sequence of [name, value] settings.  A string that   *)
(* may be a NULL pointer is a sequence of at most one string: <<>> is NULL. *)
(* The text of a port setting is its sequence of decimal digits.            *)

MaxOpts == 2

DefaultPort == 8123

OptionDefs ==
    {[name |-> "host", value |-> "a.example"],
     [name |-> "host", value |-> "b.example"],
     [name |-> "port", value |-> <<9, 0, 0, 0>>],
     [name |-> "user", value |-> "alice"],
     [name |-> "password", value |-> "secret"]}

OptionLists == UNION {[1..n -> OptionDefs] : n \in 0..MaxOpts}

\* the integer a decimal text stands for
RECURSIVE Atoi(_)
Atoi(digits) ==
    IF digits = <<>> THEN 0
    ELSE 10 * Atoi(SubSeq(digits, 1, Len(digits) - 1)) + digits[Len(digits)]

\* char *driver = "http"; ch_connection_details details = {...}
DefaultDetails ==
    [driver |-> "http", host |-> "127.0.0.1", port |-> DefaultPort,
     username |-> <<>>, password |-> <<>>, dbname |-> "default"]

\* every setting of the list, in list order, overwrites the field it names
RECURSIVE ExtractConnectionOptions(_, _)
ExtractConnectionOptions(options, details) ==
    IF options = <<>> THEN details
    ELSE LET def == Head(options)
             d == CASE def.name = "driver" -> [details EXCEPT !.driver = def.value]
                    [] def.name = "host" -> [details EXCEPT !.host = def.value]
                    [] def.name = "port" -> [details EXCEPT !.port = Atoi(def.value)]
                    [] def.name = "dbname" -> [details EXCEPT !.dbname = def.value]
                    [] def.name = "user" -> [details EXCEPT !.username = <<def.value>>]
                    [] def.name = "password" -> [details EXCEPT !.password = <<def.value>>]
                    [] OTHER -> details
         IN ExtractConnectionOptions(Tail(options), d)

\* a variant that reads the user mapping's options before the server's
ConnectionDetails_UserFirst(server_options, user_options) ==
    ExtractConnectionOptions(server_options,
        ExtractConnectionOptions(user_options, DefaultDetails))

\* the details clickhouse_connect resolves from server->options and user->options
ConnectionDetails(server_options, user_options) ==
    ExtractConnectionOptions(user_options,
        ExtractConnectionOptions(server_options, DefaultDetails))

\* psprintf conversions: a literal piece of the format, a %s and a %d argument
Lit(s) == [kind |-> "lit", text |-> s]
FmtS(s) == [kind |-> "%s", text |-> s]
FmtD(n) == [kind |-> "%d", num |-> n]

\* the connection string of the http driver, as the sequence of its pieces
HttpConnString(details) ==
    IF details.username # <<>> /\ details.password # <<>>
    THEN <<Lit("http://"), FmtS(details.username[1]), Lit(":"),
           FmtS(details.password[1]), Lit("@"), FmtS(details.host), Lit(":"),
           FmtD(details.port), Lit("/")>>
    ELSE IF details.username # <<>>
    THEN <<Lit("http://"), FmtS(details.username[1]), Lit("@"),
           FmtS(details.host), Lit(":"), FmtD(details.port), Lit("/")>>
    ELSE <<Lit("http://"), FmtS(details.host), Lit(":"), FmtD(details.port),
           Lit("/")>>

\* the option lists of a foreign server and of a user mapping
InitOptions ==
    /\ ConnectionHash = [created |-> FALSE, tab |-> <<>>]
    /\ xact_got_connection = FALSE
    /\ callbacks = <<>>
    /\ transport = [live |-> <<>>, next |-> 1, misuse |-> FALSE]
    /\ nestLevel = 0
    /\ xact_failed = FALSE
    /\ stable = [k \in Keys |-> NULL]
    /\ \E server_options \in OptionLists, user_options \in OptionLists :
          last = [op |-> "options", server |-> server_options,
                  user |-> user_options]

\* one call of clickhouse_connect on the option lists
ClickhouseConnectCall ==
    /\ last.op = "options"
    /\ \E ok \in BOOLEAN :
          LET details == ConnectionDetails(last.server, last.user)
              w == clickhouse_connect(World, SimKey, details.driver, ok)
          IN /\ transport' = w.tr
             /\ last' = [op |-> "clickhouse_connect", server |-> last.server,
                         user |-> last.user, details |-> details,
                         connstring |-> IF details.driver = "http"
                                        THEN HttpConnString(details) ELSE <<>>,
                         err |-> w.err, ret |-> w.ret]
    /\ UNCHANGED <<ConnectionHash, xact_got_connection, callbacks, nestLevel,
                   xact_failed, stable>>

NextOptions == ClickhouseConnectCall

SpecOptions == InitOptions /\ [][NextOptions]_vars

----------------------------------------------------------------------------
(* GetConnection interleaved with the invalidation callback                 *)
(*                                                                          *)
(* The callback runs whenever the backend accepts invalidation messages,    *)
(* which can be in the middle of a GetConnection call.  Here a call that    *)
(* has to connect runs in three steps, and the callback can run between     *)
(* them: lines 101-174 (up to GetForeignServer, which resolves the server), *)
(* lines 177-187 (the reset of the entry), line 190 (the connect and the    *)
(* store of the gate).  While a call is in progress, last is the record of  *)
(* that call: where it stands, what it resolved, and whether an             *)
(* invalidation of what it resolved has been delivered since.               *)

InProgress == last.op = "GetConnection"

\* the record of a call in progress or returned
CallRecord(op, pc, rq, driver, w, changed) ==
    [op |-> op, pc |-> pc, key |-> CacheKey(rq[1], rq[2]), rq |-> rq,
     driver |-> driver, cacheid |-> "", hashvalue |-> 0,
     err |-> w.err, ret |-> w.ret, log |-> w.log, found |-> w.found,
     chk |-> w.chk, hit |-> {}, changed |-> changed]

\* the world as the call in progress sees it
WorldOfCall ==
    [World EXCEPT !.log = last.log, !.found = last.found, !.chk = last.chk]

\* the call returns or raises
Return(rq, driver, w, changed) ==
    /\ Store(w)
    /\ xact_failed' = (w.err # NoError)
    /\ stable' = IF w.err = NoError /\ stable[CacheKey(rq[1], rq[2])] = NULL
                 THEN [stable EXCEPT ![CacheKey(rq[1], rq[2])] = w.ret.conn]
                 ELSE stable
    /\ last' = CallRecord("acquire", "done", rq, driver, w, changed)
    /\ UNCHANGED nestLevel

\* lines 101-174: the table, the flag, the lookup, the sanity check, the teardown;
\* with a connection in the entry the call returns it, else it resolves the server
GetConnectionBegin(rq, driver, garbage, tupValid) ==
    /\ ~InProgress
    /\ nestLevel >= 1
    /\ ~xact_failed
    /\ LET key == CacheKey(rq[1], rq[2])
           w1 == InitConnectionHash(World)
           w2 == [w1 EXCEPT !.got = TRUE]
           w3 == hash_search_enter(w2, key, garbage)
           w4 == pgfdw_reject_incomplete_xact_state_change(w3, key, tupValid)
           w5 == IF w4.err # NoError THEN w4 ELSE CloseInvalidated(w4, key)
       IN  IF w5.err # NoError
           THEN Return(rq, driver, w5, FALSE)
           ELSE IF w5.tab[key].conn # NULL
           THEN Return(rq, driver, ReturnGate(w5, key), FALSE)
           ELSE /\ Store(w5)
                /\ last' = CallRecord("GetConnection", "reset", rq, driver, w5, FALSE)
                /\ UNCHANGED <<nestLevel, xact_failed, stable>>

\* lines 177-187: reset the transient fields, record the hash values
GetConnectionReset ==
    /\ InProgress
    /\ last.pc = "reset"
    /\ LET w == [WorldOfCall EXCEPT
                    !.tab[last.key] = ResetEntry(@, last.rq[1], last.rq[2])]
       IN  /\ Store(w)
           /\ last' = [last EXCEPT !.pc = "connect"]
    /\ UNCHANGED <<nestLevel, xact_failed, stable>>

\* line 190: entry->gate = clickhouse_connect(server, user), with the server
\* resolved at line 174; line 197: return entry->gate
GetConnectionConnect(ok) ==
    /\ InProgress
    /\ last.pc = "connect"
    /\ LET w1 == clickhouse_connect(WorldOfCall, last.key, last.driver, ok)
           w2 == IF w1.err # NoError THEN w1
                 ELSE ReturnGate([w1 EXCEPT !.tab[last.key].conn = w1.ret.conn,
                                            !.tab[last.key].methods = w1.ret.methods],
                                 last.key)
       IN  Return(last.rq, last.driver, w2, last.changed)

\* the message is for what the call in progress resolved: a cache reset, the
\* key's server, or the key's user mapping
InvalOfResolved(cacheid, hashvalue) ==
    \/ hashvalue = 0
    \/ hashvalue =
          GetSysCacheHashValue1(cacheid,
              IF cacheid = FOREIGNSERVEROID THEN ServerOf(last.rq[1]) ELSE last.rq[1])

\* the callback runs in the middle of the call in progress
InvalDuringCall(cacheid, hashvalue) ==
    /\ InProgress
    /\ Registered(cacheid)
    /\ LET w == pgfdw_inval_callback(World, cacheid, hashvalue)
       IN  /\ Store(w)
           /\ last' = [last EXCEPT
                          !.changed = @ \/ InvalOfResolved(cacheid, hashvalue)]
    /\ stable' = [k \in Keys |-> NULL]
    /\ UNCHANGED <<nestLevel, xact_failed>>

NextInterleaved ==
    \/ \E rq \in Requests :
         \E driver \in DriverOptions(rq[1]),
            garbage \in GarbageRead(CacheKey(rq[1], rq[2])),
            tupValid \in LookupRead(CacheKey(rq[1], rq[2])) :
              GetConnectionBegin(rq, driver, garbage, tupValid)
    \/ GetConnectionReset
    \/ \E ok \in BOOLEAN : GetConnectionConnect(ok)
    \/ \E cacheid \in CacheIds, hashvalue \in HashValues :
         InvalDuringCall(cacheid, hashvalue)
    \/ \E cacheid \in CacheIds, hashvalue \in HashValues :
         ~InProgress /\ Inval(cacheid, hashvalue)
    \/ ~InProgress /\ StartTransaction
    \/ \E event \in {"COMMIT", "ABORT"} : ~InProgress /\ XactEvent(event)

SpecInterleaved == Init /\ [][NextInterleaved]_vars

----------------------------------------------------------------------------
(* Properties *)

Tab == ConnectionHash.tab
InvalidDriver == "invalid ClickHouse connection driver"
ConnectFailed == "could not connect"

\* the transport handles opened for a key and not yet disconnected
LiveHandles(k) == {h \in DOMAIN transport.live : transport.live[h] = k}

\* the gate of key k is present
Connected(k) == k \in DOMAIN Tab /\ Tab[k].conn # NULL

\* the transient fields of an entry are clean
Clean(e) ==
    e.xact_depth = 0 /\ ~e.have_error /\ ~e.changing_xact_state /\ ~e.invalidated

\* the fields of an entry that a freshly installed gate starts from
Fresh(e, k) ==
    /\ Clean(e)
    /\ e.read = k.read
    /\ e.server_hashvalue = GetSysCacheHashValue1(FOREIGNSERVEROID, ServerOf(k.userid))
    /\ e.mapping_hashvalue = GetSysCacheHashValue1(USERMAPPINGOID, k.userid)

\* C1: once GetConnection has returned a gate for a key, every further call on that
\* key with no invalidation and no transaction boundary in between returns that
\* same gate and neither connects nor disconnects anything on the transport.
C1_CacheHitIdempotent ==
    [][\A k \in Keys :
          (stable[k] # NULL /\ last'.op = "acquire" /\ last'.key = k)
            => /\ last'.err = NoError
               /\ last'.ret.conn = stable[k]
               /\ last'.log = <<>>
               /\ transport' = transport]_vars

C1_Witness ==
    /\ last.op = "acquire"
    /\ last.err = NoError
    /\ last.found
    /\ last.log = <<>>
    /\ last.ret.conn # NULL
    /\ stable[last.key] = last.ret.conn

\* C2: in every reachable state each key has at most one transport handle that was
\* opened for it and is not yet disconnected, and that handle is the one its entry
\* holds.
C2_AtMostOneLiveGate ==
    \A k \in Keys :
        /\ Cardinality(LiveHandles(k)) <= 1
        /\ LiveHandles(k) = IF Connected(k) THEN {Tab[k].conn} ELSE {}

C2_Witness ==
    \E k \in Keys, h \in 1..MaxHandles :
        /\ LiveHandles(k) = {h}
        /\ \E old \in 1..MaxHandles :
              /\ old < h
              /\ old \notin DOMAIN transport.live
              /\ last.key = k
              /\ last.log = << <<"disconnect", old>>, <<"connect", h>> >>

\* C3: an entry invalidated while it is in use by the open local transaction (its
\* transaction depth, as the boundary events define it, is greater than 0) keeps
\* its gate connected as long as that transaction is open: the next call does not
\* disconnect it.
C3_KeptWhileInTransaction ==
    [][\A k \in last.hit :
          nestLevel' >= 1
            => /\ k \in DOMAIN Tab'
               /\ Tab'[k].conn = Tab[k].conn
               /\ Tab[k].conn \in DOMAIN transport'.live]_vars

\* C4: pgfdw_inval_callback(cacheid, hashvalue) marks, among the entries with a
\* connection, every one when hashvalue is 0 and otherwise exactly those whose
\* stored hash for that cache equals hashvalue; it changes nothing else, and an
\* entry without a connection is never marked.
C4_InvalMarksExactly ==
    [][last'.op = "inval"
        => /\ DOMAIN Tab' = DOMAIN Tab
           /\ \A k \in DOMAIN Tab :
                LET e == Tab[k]
                    stored == IF last'.cacheid = FOREIGNSERVEROID
                              THEN e.server_hashvalue
                              ELSE e.mapping_hashvalue
                    marked == /\ e.conn # NULL
                              /\ (last'.hashvalue = 0 \/ stored = last'.hashvalue)
                IN  Tab'[k] = IF marked THEN [e EXCEPT !.invalidated = TRUE] ELSE e]_vars

C4_Witness ==
    /\ last.op = "inval"
    /\ last.cacheid = USERMAPPINGOID
    /\ last.hashvalue = 5
    /\ \E k1, k2 \in DOMAIN Tab :
          /\ Tab[k1].conn # NULL
          /\ Tab[k1].mapping_hashvalue = 5
          /\ Tab[k1].invalidated
          /\ Tab[k2].conn # NULL
          /\ Tab[k2].server_hashvalue = 5
          /\ ~Tab[k2].invalidated

\* C5 as stated: the sanity check, given an entry with changing_xact_state set,
\* always disconnects, raises and leaves the entry without a connection.
C5_RejectsEveryChangingEntry ==
    (last.op = "acquire" /\ last.chk.called /\ last.chk.changing)
        => /\ last.chk.raised
           /\ last.err # NoError
           /\ Tab[last.key].conn = NULL

\* C5 as amended: the sanity check, given an entry that has a connection and has
\* changing_xact_state set, disconnects that connection, raises an ERROR (the call
\* returns no gate) and leaves the entry without a connection.
C5_RejectsChangingConnectedEntry ==
    (last.op = "acquire" /\ last.chk.called /\ last.chk.conn # NULL /\ last.chk.changing)
        => /\ last.chk.raised
           /\ last.err \in {"connection to server was lost",
                             "cache lookup failed for user mapping"}
           /\ last.ret = NoGate
           /\ last.log = << <<"disconnect", last.chk.conn>> >>
           /\ last.chk.conn \notin DOMAIN transport.live
           /\ Tab[last.key].conn = NULL

C5_Witness ==
    /\ last.op = "acquire"
    /\ last.chk.conn # NULL
    /\ last.chk.changing
    /\ last.chk.raised
    /\ Tab[last.key].conn = NULL

\* C6: the transaction depth of an entry follows the boundary events: an entry whose
\* gate was handed out in the open transaction is Active (depth > 0, not changing),
\* and with no transaction open every connected entry is Idle (depth 0, not
\* changing).
C6_DepthFollowsEvents ==
    /\ (last.op = "acquire" /\ last.err = NoError)
          => (Tab[last.key].xact_depth > 0 /\ ~Tab[last.key].changing_xact_state)
    /\ nestLevel = 0
          => \A k \in DOMAIN Tab :
                Tab[k].conn # NULL
                  => (Tab[k].xact_depth = 0 /\ ~Tab[k].changing_xact_state)

\* C7: when the driver fails to connect, GetConnection raises and the entry stays in
\* the cache without a connection; a later call on an entry without a connection
\* that returns normally has connected a fresh handle, returns it, and the entry's
\* transient fields are clean.
C7_ConnectFailureRetries ==
    [][\A k \in Keys :
          (last'.op = "acquire" /\ last'.key = k)
            => /\ last'.err = ConnectFailed
                    => /\ k \in DOMAIN Tab'
                       /\ Tab'[k].conn = NULL
                       /\ last'.ret = NoGate
                       /\ \A h \in DOMAIN transport'.live : transport'.live[h] # k
               /\ (k \in DOMAIN Tab /\ Tab[k].conn = NULL /\ last'.err = NoError)
                    => \E h \in 1..MaxHandles :
                          /\ last'.log = << <<"connect", h>> >>
                          /\ h \notin DOMAIN transport.live
                          /\ h \in DOMAIN transport'.live
                          /\ transport'.live[h] = k
                          /\ last'.ret.conn = h
                          /\ Tab'[k].conn = h
                          /\ Clean(Tab'[k])]_vars

C7_Witness ==
    /\ last.op = "acquire"
    /\ last.err = NoError
    /\ last.found
    /\ Len(last.log) = 1
    /\ last.log[1][1] = "connect"
    /\ Tab[last.key].conn = last.ret.conn
    /\ Clean(Tab[last.key])

\* C8: a call on an entry whose connection is invalidated at depth 0 first
\* disconnects the old handle; if it then returns normally, it connected a new
\* handle after that disconnect and returns the new gate with invalidated cleared;
\* if the connect fails, the entry is left without a connection.
C8_InvalidatedIsRemade ==
    [][\A k \in Keys :
          (/\ last'.op = "acquire" /\ last'.key = k
           /\ k \in DOMAIN Tab /\ Tab[k].conn # NULL
           /\ Tab[k].invalidated /\ Tab[k].xact_depth = 0)
            => LET old == Tab[k].conn IN
               /\ Len(last'.log) >= 1
               /\ last'.log[1] = <<"disconnect", old>>
               /\ old \notin DOMAIN transport'.live
               /\ last'.err = NoError
                    => \E new \in 1..MaxHandles :
                          /\ new # old
                          /\ last'.log = << <<"disconnect", old>>, <<"connect", new>> >>
                          /\ new \in DOMAIN transport'.live
                          /\ last'.ret.conn = new
                          /\ Tab'[k].conn = new
                          /\ ~Tab'[k].invalidated
               /\ last'.err # NoError
                    => /\ last'.log = << <<"disconnect", old>> >>
                       /\ Tab'[k].conn = NULL]_vars

C8_Witness ==
    /\ last.op = "acquire"
    /\ last.err = NoError
    /\ Len(last.log) = 2
    /\ last.log[1][1] = "disconnect"
    /\ last.log[2][1] = "connect"
    /\ last.ret.conn = last.log[2][2]
    /\ ~Tab[last.key].invalidated

\* C9: a call on one key leaves the entry of every other key, and the handles
\* opened for it, as they were.
C9_OtherKeysUntouched ==
    [][\A k \in Keys :
          (last'.op = "acquire" /\ last'.key = k)
            => \A k2 \in Keys \ {k} :
                  /\ (k2 \in DOMAIN Tab') = (k2 \in DOMAIN Tab)
                  /\ k2 \in DOMAIN Tab => Tab'[k2] = Tab[k2]
                  /\ \A h \in 1..MaxHandles :
                        (h \in DOMAIN transport'.live /\ transport'.live[h] = k2)
                          = (h \in DOMAIN transport.live /\ transport.live[h] = k2)]_vars

C9_Witness ==
    /\ last.op = "acquire"
    /\ Len(last.log) = 2
    /\ \E k2 \in DOMAIN Tab :
          /\ k2 # last.key
          /\ Tab[k2].conn # NULL
          /\ Tab[k2].invalidated
          /\ Tab[k2].conn \in DOMAIN transport.live

\* C10 as stated: a call that fails on an unknown driver leaves the cache and the
\* transport as they were before the call.
C10_NoStateMutation ==
    [][(last'.op = "acquire" /\ last'.err = InvalidDriver)
          => (ConnectionHash' = ConnectionHash /\ transport' = transport)]_vars

\* C10 as amended: a call that fails on an unknown driver opens no transport handle
\* and changes no other key's entry, but it does change the requested key's entry:
\* the entry is in the cache afterwards (inserted if it was missing), has no
\* connection (one that was invalidated at depth 0 is disconnected first) and its
\* transient fields are reset.
C10_InvalidDriverLeavesEmptyEntry ==
    [][\A k \in Keys :
          (last'.op = "acquire" /\ last'.key = k /\ last'.err = InvalidDriver)
            => /\ k \in DOMAIN Tab'
               /\ Tab'[k].conn = NULL
               /\ Fresh(Tab'[k], k)
               /\ last'.ret = NoGate
               /\ transport'.next = transport.next
               /\ DOMAIN transport'.live \subseteq DOMAIN transport.live
               /\ last'.log = IF k \in DOMAIN Tab /\ Tab[k].conn # NULL
                              THEN << <<"disconnect", Tab[k].conn>> >>
                              ELSE <<>>
               /\ (k \in DOMAIN Tab /\ Tab[k].conn # NULL)
                    => (Tab[k].invalidated /\ Tab[k].xact_depth = 0)
               /\ \A k2 \in Keys \ {k} :
                     /\ (k2 \in DOMAIN Tab') = (k2 \in DOMAIN Tab)
                     /\ k2 \in DOMAIN Tab => Tab'[k2] = Tab[k2]]_vars

C10_Witness ==
    /\ last.op = "acquire"
    /\ last.err = InvalidDriver
    /\ ~last.found
    /\ last.key \in DOMAIN Tab
    /\ Tab[last.key].conn = NULL

----------------------------------------------------------------------------
(* Properties of clickhouse_connect's details and connection string *)

\* the value of the last setting called name in an option list, or default
LastSetting(name, options, default) ==
    LET at == {i \in DOMAIN options : options[i].name = name} IN
    IF at = {} THEN default
    ELSE options[CHOOSE i \in at : \A j \in at : j <= i].value

HasSetting(name, options) == \E i \in DOMAIN options : options[i].name = name

\* the string s was printed into the connection string by a %s conversion
Appears(s, connstring) ==
    \E i \in DOMAIN connstring :
        connstring[i].kind = "%s" /\ connstring[i].text = s

\* the connection string has the literal piece s
HasLit(s, connstring) == \E i \in DOMAIN connstring : connstring[i] = Lit(s)

\* C11: the details are the built-in defaults (host 127.0.0.1, port 8123,
\* database default, driver http) overwritten field by field by the server's
\* options and then by the user mapping's options: for each field the user
\* mapping's last setting wins, else the server's last setting, else the
\* default.  So a server host and a user host give the user host, a port set
\* only on the server is used, and a port set by neither is 8123.
C11_UserOptionsOverrideServerOptions ==
    last.op = "clickhouse_connect" =>
        /\ last.details.host =
              LastSetting("host", last.user,
                  LastSetting("host", last.server, "127.0.0.1"))
        /\ last.details.port =
              IF HasSetting("port", last.user) \/ HasSetting("port", last.server)
              THEN 9000 ELSE 8123
        /\ last.details.username =
              IF HasSetting("user", last.server \o last.user)
              THEN <<LastSetting("user", last.user,
                         LastSetting("user", last.server, ""))>>
              ELSE <<>>
        /\ last.details.password =
              IF HasSetting("password", last.server \o last.user)
              THEN <<LastSetting("password", last.user,
                         LastSetting("password", last.server, ""))>>
              ELSE <<>>
        /\ last.details.dbname = "default"
        /\ last.details.driver = "http"

\* the server names host a.example and port 9000, the user mapping names host
\* b.example and no port: the details hold b.example and 9000
C11_Witness ==
    /\ last.op = "clickhouse_connect"
    /\ LastSetting("host", last.server, "") = "a.example"
    /\ LastSetting("host", last.user, "") = "b.example"
    /\ HasSetting("port", last.server)
    /\ ~HasSetting("port", last.user)
    /\ last.details.host = "b.example"
    /\ last.details.port = 9000

\* C17: the http connection string carries every credential of the details:
\* it has no password piece when the password is NULL, no user piece when
\* username and password are both NULL, and in each of the four cases a
\* username or password that is not NULL is printed into the string.
C17_PresentCredentialsAppear ==
    (last.op = "clickhouse_connect" /\ last.details.driver = "http") =>
        LET d == last.details
            cs == last.connstring
        IN /\ d.password = <<>> => ~HasLit(":", SubSeq(cs, 2, Len(cs) - 4))
           /\ (d.username = <<>> /\ d.password = <<>>) => ~HasLit("@", cs)
           /\ d.username # <<>> => Appears(d.username[1], cs)
           /\ d.password # <<>> => Appears(d.password[1], cs)

----------------------------------------------------------------------------
(* Properties of the sanity check inside GetConnection *)

LostConnection == "connection to server was lost"
LookupFailed == "cache lookup failed for user mapping"

\* the handles the drivers have handed out so far
Opened == 1..(transport.next - 1)

----------------------------------------------------------------------------
(* Frame of pgfdw_inval_callback *)

\* C13: pgfdw_inval_callback never disconnects and never touches the transport;
\* of every entry it leaves conn, methods, xact_depth, changing_xact_state,
\* have_error and both stored hash values as they were; the only field it
\* writes is invalidated, which it sets and never clears.
C13_InvalWritesOnlyInvalidated ==
    [][last'.op = "inval"
        => /\ transport' = transport
           /\ last'.log = <<>>
           /\ last'.err = NoError
           /\ callbacks' = callbacks
           /\ xact_got_connection' = xact_got_connection
           /\ DOMAIN Tab' = DOMAIN Tab
           /\ \A k \in DOMAIN Tab :
                /\ Tab'[k].conn = Tab[k].conn
                /\ Tab'[k].methods = Tab[k].methods
                /\ Tab'[k].xact_depth = Tab[k].xact_depth
                /\ Tab'[k].changing_xact_state = Tab[k].changing_xact_state
                /\ Tab'[k].have_error = Tab[k].have_error
                /\ Tab'[k].server_hashvalue = Tab[k].server_hashvalue
                /\ Tab'[k].mapping_hashvalue = Tab[k].mapping_hashvalue
                /\ Tab[k].invalidated => Tab'[k].invalidated]_vars

\* an invalidation has just marked a gate handed out before it, and the entry
\* with an open remote transaction and a pending state change still has its
\* connection, its depth and its pending flag
C13_Witness ==
    /\ last.op = "inval"
    /\ last.hit # {}
    /\ SimKey \in DOMAIN Tab
    /\ Tab[SimKey].conn = 1
    /\ 1 \in DOMAIN transport.live
    /\ Tab[SimKey].xact_depth = MaxNest
    /\ Tab[SimKey].changing_xact_state
    /\ Tab[SimKey].invalidated

----------------------------------------------------------------------------
(* Ownership of the transport handles *)

\* every open handle is the connection of the entry it was opened for, every
\* connection of an entry is an open handle opened for it, and no handle was
\* ever disconnected when it was not open
HandlesOwnedOnce ==
    /\ ~transport.misuse
    /\ \A h \in DOMAIN transport.live :
          /\ transport.live[h] \in DOMAIN Tab
          /\ Tab[transport.live[h]].conn = h
    /\ \A k \in DOMAIN Tab :
          Tab[k].conn # NULL
            => /\ Tab[k].conn \in DOMAIN transport.live
               /\ transport.live[Tab[k].conn] = k
    /\ (last.op = "acquire" /\ last.err = NoError)
          => /\ last.ret.conn \in DOMAIN transport.live
             /\ last.ret.conn = Tab[last.key].conn

\* a handle is closed only by GetConnection on the entry that owns it, either by
\* the sanity check raising or by the teardown of an invalidated connection at
\* depth 0; the call logs that one disconnect and the entry no longer holds the
\* handle after the step
ClosedOnlyByOwnerCall ==
    \A h \in (DOMAIN transport.live) \ (DOMAIN transport'.live) :
        LET k == transport.live[h] IN
        /\ last'.op = "acquire"
        /\ last'.key = k
        /\ Tab[k].conn = h
        /\ Tab'[k].conn # h
        /\ Len(SelectSeq(last'.log, LAMBDA x : x = <<"disconnect", h>>)) = 1
        /\ \/ last'.chk.raised /\ Tab'[k].conn = NULL
           \/ /\ ~last'.chk.raised
              /\ Tab[k].invalidated
              /\ Tab[k].xact_depth = 0

\* C14: every transport handle is owned by exactly one entry and is
\* disconnected at most once; only GetConnection's teardown of an invalidated
\* connection and the sanity check's error path disconnect a handle, and each
\* takes it out of the entry in the same call; GetConnection never returns
\* normally a gate whose handle has been disconnected.
C14_HandlesOwnedAndClosedOnce ==
    []HandlesOwnedOnce /\ [][ClosedOnlyByOwnerCall]_vars

\* a call has torn down the invalidated connection and returned a fresh one:
\* the old handle is closed, the new one is open and owned by the entry
C14_Witness ==
    /\ last.op = "acquire"
    /\ last.err = NoError
    /\ Len(last.log) = 2
    /\ last.log[1][1] = "disconnect"
    /\ last.log[1][2] \notin DOMAIN transport.live
    /\ last.log[2] = <<"connect", last.ret.conn>>
    /\ last.ret.conn \in DOMAIN transport.live
    /\ transport.live[last.ret.conn] = last.key

----------------------------------------------------------------------------
(* The entry after a connect *)

\* the handles a call connected
ConnectedBy(call) ==
    {call.log[i][2] : i \in {j \in DOMAIN call.log : call.log[j][1] = "connect"}}

\* C15: whenever GetConnection installs a new connection in an entry (a new
\* entry, an entry remade after the teardown, an entry left without a
\* connection by a failed connect or by the sanity check), the entry has
\* xact_depth 0, have_error, changing_xact_state and invalidated false and both
\* hash values those of the key's server and user mapping, whatever the fields
\* held before the call.
C15_FreshGateHasResetFields ==
    [][\A k \in Keys :
          (last'.op = "acquire" /\ last'.key = k /\ ConnectedBy(last') # {})
            => /\ last'.err = NoError
               /\ ConnectedBy(last') = {Tab'[k].conn}
               /\ last'.ret.conn = Tab'[k].conn
               /\ Tab'[k].xact_depth = 0
               /\ ~Tab'[k].have_error
               /\ ~Tab'[k].changing_xact_state
               /\ ~Tab'[k].invalidated
               /\ Tab'[k].server_hashvalue =
                     GetSysCacheHashValue1(FOREIGNSERVEROID, ServerOf(k.userid))
               /\ Tab'[k].mapping_hashvalue =
                     GetSysCacheHashValue1(USERMAPPINGOID, k.userid)]_vars

\* a new hash element whose memory held xact_depth 1, have_error,
\* changing_xact_state and invalidated set and stale hash values got its first
\* connection: every field is reset
C15_Witness ==
    /\ last.op = "acquire"
    /\ last.err = NoError
    /\ ~last.found
    /\ last.chk.changing
    /\ last.log = << <<"connect", last.ret.conn>> >>
    /\ Tab[last.key].conn = last.ret.conn
    /\ Fresh(Tab[last.key], last.key)

----------------------------------------------------------------------------
(* Creation of the cache and registration of the callbacks *)

AllCallbacks == <<"xact", "subxact", FOREIGNSERVEROID, USERMAPPINGOID>>

\* the callbacks are registered, once each, exactly when the hash table exists;
\* a GetConnection call, failed or not, leaves the table created; the
\* invalidation callback has only run with the table created
CreatedIffRegistered ==
    /\ callbacks = IF ConnectionHash.created THEN AllCallbacks ELSE <<>>
    /\ ~ConnectionHash.created => Tab = <<>>
    /\ last.op = "acquire" => ConnectionHash.created
    /\ last.op = "inval" => ConnectionHash.created

\* the table is created and the callbacks are registered in one step, a
\* GetConnection call that found no table, and never again
CreatedByFirstCall ==
    (callbacks' # callbacks \/ ConnectionHash'.created # ConnectionHash.created)
        => /\ last'.op = "acquire"
           /\ ~ConnectionHash.created
           /\ callbacks = <<>>
           /\ ConnectionHash'.created
           /\ callbacks' = AllCallbacks

\* C16: over any sequence of GetConnection calls, failing ones included, the
\* hash table is created and the four callbacks are registered exactly once, by
\* the first call; pgfdw_inval_callback never runs before the table exists.
C16_InitializedExactlyOnce ==
    []CreatedIffRegistered /\ [][CreatedByFirstCall]_vars

\* a call on an entry an earlier call left behind, with no connect having
\* succeeded so far: the callbacks are still registered once each
C16_Witness ==
    /\ last.op = "acquire"
    /\ last.found
    /\ last.err # NoError
    /\ transport.next = 1
    /\ ConnectionHash.created
    /\ callbacks = AllCallbacks

----------------------------------------------------------------------------
(* Recovery after the sanity check has raised *)

\* after the sanity check raised, the entry is still in the cache, without a
\* connection
RejectedEntryStays ==
    (last.op = "acquire" /\ last.chk.raised)
        => /\ last.err \in {LostConnection, LookupFailed}
           /\ last.key \in DOMAIN Tab
           /\ Tab[last.key].conn = NULL

\* a call on an entry the sanity check left without a connection and with
\* changing_xact_state still set passes the sanity check; it fails only if the
\* connect fails, and otherwise returns the handle it connected, with
\* changing_xact_state cleared
RejectedEntryReconnects ==
    \A k \in DOMAIN Tab :
        (/\ Tab[k].conn = NULL
         /\ Tab[k].changing_xact_state
         /\ last'.op = "acquire" /\ last'.key = k)
          => /\ last'.chk.called
             /\ ~last'.chk.raised
             /\ last'.err \in {NoError, ConnectFailed, InvalidDriver}
             /\ last'.err = NoError
                  => /\ last'.log = << <<"connect", last'.ret.conn>> >>
                     /\ last'.ret.conn \in DOMAIN transport'.live
                     /\ last'.ret.conn \notin Opened
                     /\ Tab'[k].conn = last'.ret.conn
                     /\ ~Tab'[k].changing_xact_state

\* C19: after a GetConnection call failed because it found changing_xact_state
\* set, the entry stays in the cache without a connection, and the next call on
\* the same key passes the sanity check, connects a fresh handle and returns it
\* with changing_xact_state false, provided the connect succeeds.
C19_RecoversAfterRejection ==
    []RejectedEntryStays /\ [][RejectedEntryReconnects]_vars

\* the call found the entry the sanity check had torn down (no connection,
\* changing_xact_state set), passed the check and returned a fresh connection
C19_Witness ==
    /\ last.op = "acquire"
    /\ last.found
    /\ last.chk.called
    /\ last.chk.conn = NULL
    /\ last.chk.changing
    /\ ~last.chk.raised
    /\ last.err = NoError
    /\ last.ret.conn # 1
    /\ Tab[last.key].conn = last.ret.conn
    /\ ~Tab[last.key].changing_xact_state

----------------------------------------------------------------------------
(* Invalidations delivered in the middle of a GetConnection call *)

\* C18: no invalidation is lost when the callback runs in the middle of a
\* GetConnection call: if a call that connects was delivered, after it
\* resolved the server and before it stored the new gate, an invalidation with
\* hash value 0 or the hash of the key's server or user mapping, then when the
\* call returns the entry is marked invalidated (the call resolves the server
\* once, so the gate is never opened from metadata resolved after the change).
C18_NoInvalidationLost ==
    (/\ last.op = "acquire"
     /\ last.err = NoError
     /\ ConnectedBy(last) # {}
     /\ last.changed)
        => Tab[last.key].invalidated

====
